---------------------------- MODULE Spec2Model ----------------------------
(***************************************************************************)
(* A model of the video store of app.py: the metadata document             *)
(* (uploads/metadata.json), the blob files (uploads/videos/<name>) and the *)
(* request handlers upload_video, get_all_videos, stream_video and         *)
(* delete_video, each run by a worker thread of the server, one            *)
(* file-system call per step.                                              *)
(*                                                                         *)
(* Text (file names, the Range header) is a sequence of one-character      *)
(* strings, so that split, int and str are computed as Python computes     *)
(* them.                                                                   *)
(***************************************************************************)
EXTENDS Integers, Sequences, FiniteSets, TLC

(***************************************************************************)
(* Bounds of the model.                                                    *)
(***************************************************************************)
\* Worker threads of the server, each handling one request at a time.
NumWorkers == 2
\* Records of the metadata document in the catalog specification.
MaxRecords == 3
\* Latest second of an upload in the catalog specification.
MaxTime == 1
\* Process crashes in one behaviour.
MaxCrashes == 1
\* Bytes of the blob streamed in the range specification.
MaxLen == 3
\* Largest number written in a Range header of the range specification.
MaxNum == 11

(***************************************************************************)
(* Python text operations.                                                 *)
(***************************************************************************)
Digits == <<"0", "1", "2", "3", "4", "5", "6", "7", "8", "9">>

DigitChars == {Digits[i] : i \in 1..10}

DigitVal(c) == (CHOOSE i \in 1..10 : Digits[i] = c) - 1

\* c in s
Contains(s, c) == \E i \in 1..Len(s) : s[i] = c

FirstIndex(s, c) == CHOOSE i \in 1..Len(s) : s[i] = c /\ \A j \in 1..(i-1) : s[j] # c

LastIndex(s, c) == CHOOSE i \in 1..Len(s) : s[i] = c /\ \A j \in (i+1)..Len(s) : s[j] # c

\* s.split(c): the pieces of s between the occurrences of c, empty pieces kept.
RECURSIVE Split(_, _)
Split(s, c) ==
    IF ~Contains(s, c) THEN <<s>>
    ELSE LET i == FirstIndex(s, c)
         IN  <<SubSeq(s, 1, i-1)>> \o Split(SubSeq(s, i+1, Len(s)), c)

\* s.rsplit(c, 1): split once, at the last occurrence of c.
RSplit1(s, c) ==
    IF ~Contains(s, c) THEN <<s>>
    ELSE LET i == LastIndex(s, c)
         IN  <<SubSeq(s, 1, i-1), SubSeq(s, i+1, Len(s))>>

\* s.strip() for the one whitespace character of the model's alphabet.
RECURSIVE Strip(_)
Strip(s) ==
    IF s = <<>> THEN s
    ELSE IF Head(s) = " " THEN Strip(Tail(s))
    ELSE IF s[Len(s)] = " " THEN Strip(SubSeq(s, 1, Len(s)-1))
    ELSE s

\* The value of a sequence of digits, underscores skipped.
RECURSIVE DigitsValue(_, _)
DigitsValue(s, acc) ==
    IF s = <<>> THEN acc
    ELSE IF Head(s) = "_" THEN DigitsValue(Tail(s), acc)
    ELSE DigitsValue(Tail(s), 10 * acc + DigitVal(Head(s)))

\* Digits, with single underscores allowed between two digits.
IsDigitString(s) ==
    /\ s # <<>>
    /\ \A i \in 1..Len(s) : s[i] \in DigitChars \cup {"_"}
    /\ s[1] # "_" /\ s[Len(s)] # "_"
    /\ \A i \in 1..(Len(s)-1) : ~(s[i] = "_" /\ s[i+1] = "_")

\* int(s): surrounding whitespace stripped, an optional sign, then digits;
\* anything else raises ValueError (ok = FALSE).
PyInt(s) ==
    LET t == Strip(s)
        signed == t # <<>> /\ Head(t) \in {"+", "-"}
        body == IF signed THEN Tail(t) ELSE t
    IN  IF IsDigitString(body)
        THEN [ok |-> TRUE,
              val |-> IF signed /\ Head(t) = "-"
                      THEN 0 - DigitsValue(body, 0) ELSE DigitsValue(body, 0)]
        ELSE [ok |-> FALSE, val |-> 0]

\* str(n) for n >= 0.
RECURSIVE PyStr(_)
PyStr(n) ==
    IF n < 10 THEN <<Digits[n+1]>> ELSE PyStr(n \div 10) \o <<Digits[(n % 10) + 1]>>


\* s.lower() and s.upper() on the letters of the model's alphabet.
LowerChar(c) ==
    CASE c = "A" -> "a" [] c = "E" -> "e" [] c = "M" -> "m" [] c = "P" -> "p"
      [] c = "X" -> "x" [] c = "K" -> "k" [] c = "V" -> "v" [] OTHER -> c

UpperChar(c) ==
    CASE c = "a" -> "A" [] c = "e" -> "E" [] c = "m" -> "M" [] c = "p" -> "P"
      [] c = "x" -> "X" [] c = "k" -> "K" [] c = "v" -> "V" [] OTHER -> c

Lower(s) == [i \in 1..Len(s) |-> LowerChar(s[i])]

Upper(s) == [i \in 1..Len(s) |-> UpperChar(s[i])]

(***************************************************************************)
(* Upload validation and naming.                                           *)
(***************************************************************************)
ALLOWED_EXTENSIONS ==
    { <<"m", "p", "4">>, <<"a", "v", "i">>, <<"m", "o", "v">>,
      <<"m", "k", "v">>, <<"w", "e", "b", "m">> }

allowed_file(filename) ==
    /\ Contains(filename, ".")
    /\ Lower(RSplit1(filename, ".")[2]) \in ALLOWED_EXTENSIONS

\* Characters secure_filename keeps: [A-Za-z0-9_.-].
SafeChars ==
    DigitChars \cup {"_", ".", "-"} \cup
    {"a", "e", "i", "k", "m", "o", "p", "v", "w", "b", "x",
     "A", "E", "M", "P", "X", "K", "V"}

\* "_".join(s.split()): the words of s (runs of whitespace separate them)
\* joined by underscores.
RECURSIVE Join(_, _)
Join(words, sep) ==
    IF words = <<>> THEN <<>>
    ELSE IF Len(words) = 1 THEN words[1]
    ELSE words[1] \o <<sep>> \o Join(Tail(words), sep)

JoinWords(s) == Join(SelectSeq(Split(s, " "), LAMBDA p : p # <<>>), "_")

RECURSIVE StripDots(_)
StripDots(s) ==
    IF s = <<>> THEN s
    ELSE IF Head(s) \in {".", "_"} THEN StripDots(Tail(s))
    ELSE IF s[Len(s)] \in {".", "_"} THEN StripDots(SubSeq(s, 1, Len(s)-1))
    ELSE s

\* werkzeug's secure_filename: path separators become spaces, words are joined
\* by "_", characters outside [A-Za-z0-9_.-] are dropped, and leading and
\* trailing dots and underscores are stripped.
secure_filename(filename) ==
    LET spaced == [i \in 1..Len(filename) |->
                      IF filename[i] = "/" THEN " " ELSE filename[i]]
        joined == JoinWords(spaced)
        kept == SelectSeq(joined, LAMBDA c : c \in SafeChars)
    IN  StripDots(kept)

\* get_file_size: the size in the first unit in which it is below 1024, with
\* one decimal (kept as tenths), or in TB.
RECURSIVE SizeIn(_, _, _)
SizeIn(size, div, units) ==
    IF units = <<>> THEN <<(20 * size + div) \div (2 * div), "TB">>
    ELSE IF size < 1024 * div
         THEN <<(20 * size + div) \div (2 * div), Head(units)>>
         ELSE SizeIn(size, 1024 * div, Tail(units))

get_file_size(size) == SizeIn(size, 1, <<"B", "KB", "MB", "GB">>)

(***************************************************************************)
(* The Range header of stream_video.                                       *)
(***************************************************************************)
\* No Range header in the request (request.headers.get gives None); no
\* 'video' part in request.files.
None == <<"None">>

\* ParseRange with the open end at `size`, one past the last byte.
ParseRangeEndAtSize(range_header, size) ==
    LET parts == Split(range_header, "=")
    IN  IF Len(parts) < 2
        THEN [err |-> "IndexError", byte_start |-> 0, byte_end |-> 0]
        ELSE
          LET rangeSpec == parts[2]
              pieces == Split(rangeSpec, "-")
              start == PyInt(pieces[1])
          IN  IF ~start.ok
              THEN [err |-> "ValueError", byte_start |-> 0, byte_end |-> 0]
              ELSE IF Contains(rangeSpec, "-") /\ pieces[2] # <<>>
                   THEN IF PyInt(pieces[2]).ok
                        THEN [err |-> "none", byte_start |-> start.val,
                              byte_end |-> PyInt(pieces[2]).val]
                        ELSE [err |-> "ValueError", byte_start |-> 0, byte_end |-> 0]
                   ELSE [err |-> "none", byte_start |-> start.val,
                         byte_end |-> size]

\* Lines 1055-1065: the bounds the handler reads from the header, for a file
\* of `size` bytes.  err names the exception an expression raises.
ParseRange(range_header, size) ==
    LET parts == Split(range_header, "=")
    IN  IF Len(parts) < 2
        THEN [err |-> "IndexError", byte_start |-> 0, byte_end |-> 0]
        ELSE
          LET rangeSpec == parts[2]
              pieces == Split(rangeSpec, "-")
              start == PyInt(pieces[1])
          IN  IF ~start.ok
              THEN [err |-> "ValueError", byte_start |-> 0, byte_end |-> 0]
              ELSE IF Contains(rangeSpec, "-") /\ pieces[2] # <<>>
                   THEN IF PyInt(pieces[2]).ok
                        THEN [err |-> "none", byte_start |-> start.val,
                              byte_end |-> PyInt(pieces[2]).val]
                        ELSE [err |-> "ValueError", byte_start |-> 0, byte_end |-> 0]
                   ELSE [err |-> "none", byte_start |-> start.val,
                         byte_end |-> size - 1]

\* ReadAt without the seek: the bytes are read from the start of the file.
ReadAtNoSeek(content, byte_start, length) ==
    IF byte_start < 0 THEN [err |-> "OSError", data |-> <<>>]
    ELSE IF length < -1 THEN [err |-> "ValueError", data |-> <<>>]
    ELSE LET last == IF length = -1 \/ length > Len(content)
                     THEN Len(content) ELSE length
         IN  [err |-> "none", data |-> SubSeq(content, 1, last)]

\* Lines 1067-1069: f.seek(byte_start); f.read(length) on a file holding
\* `content`.  A read past the end gives what is there; length -1 reads to the
\* end; a smaller length raises ValueError.
ReadAt(content, byte_start, length) ==
    IF byte_start < 0 THEN [err |-> "OSError", data |-> <<>>]
    ELSE IF length < -1 THEN [err |-> "ValueError", data |-> <<>>]
    ELSE LET last == IF length = -1 \/ byte_start + length > Len(content)
                     THEN Len(content) ELSE byte_start + length
         IN  [err |-> "none", data |-> SubSeq(content, byte_start + 1, last)]


(***************************************************************************)
(* The state.                                                              *)
(***************************************************************************)
VARIABLES
    metaFile,   \* uploads/metadata.json: [state, doc, len]
    blobs,      \* uploads/videos: file name -> [ino, data], for the files there
    inodes,     \* files created so far in uploads/videos
    clock,      \* datetime.now(), in seconds (constant: one second is modelled)
    crashes,    \* process crashes so far
    pc,         \* each worker's place in its handler
    req,        \* each worker's request and the handler's local variables
    resp,       \* each worker's response
    doc0        \* the ids of the metadata document at the start

vars == <<metaFile, blobs, inodes, clock, crashes, pc, req, resp, doc0>>

Workers == 1..NumWorkers

\* One more thread of the server: it serves a request that arrives when the
\* workers' requests have been answered.
Observer == NumWorkers + 1

Threads == Workers \cup {Observer}

\* session['user_id'] of a request; NoUser: no user_id in the session.
Users == {"u1", "u2"}

NoUser == "anon"

Bytes == {"x", "y"}

\* The record upload_video stores (lines 994-1002).
VideoRecord(video_id, filename, uploaded, size, user) ==
    [id |-> video_id, title |-> filename, filename |-> video_id,
     uploaded |-> uploaded, size |-> get_file_size(size),
     format |-> Upper(RSplit1(filename, ".")[2]), user_id |-> user]

\* The metadata document is a dict, which keeps insertion order: a sequence of
\* records with distinct ids.
DocIds(doc) == {doc[i].id : i \in 1..Len(doc)}

Lookup(doc, video_id) == doc[CHOOSE i \in 1..Len(doc) : doc[i].id = video_id]

\* metadata[video_id] = record: in place for a key the dict holds, appended
\* otherwise.
DictPut(doc, record) ==
    IF record.id \in DocIds(doc)
    THEN [i \in 1..Len(doc) |-> IF doc[i].id = record.id THEN record ELSE doc[i]]
    ELSE Append(doc, record)

\* del metadata[video_id]
DictDel(doc, video_id) == SelectSeq(doc, LAMBDA r : r.id # video_id)

\* Characters of json.dump(doc, indent=2), for user ids of 21 characters
\* ("user_1_20260101120000") and the timestamp formats of lines 985 and 998.
RECURSIVE RecordsLen(_)
RecordsLen(doc) ==
    IF doc = <<>> THEN 0
    ELSE LET r == Head(doc)
         IN  290 + 4 * Len(r.title) + Len(r.format)
                 + Len(PyStr(r.size[1] \div 10)) + 3 + (IF r.size[2] = "B" THEN 1 ELSE 2)
                 + RecordsLen(Tail(doc))

JsonLen(doc) == IF doc = <<>> THEN 2 ELSE 2 + RecordsLen(doc)

\* The file as save_metadata leaves it when nothing interferes.
CompleteFile(doc) == [state |-> "complete", doc |-> doc, len |-> JsonLen(doc)]

\* open(METADATA_FILE, 'w') (line 55): the file is created or cut to nothing.
TruncatedFile == [state |-> "invalid", doc |-> <<>>, len |-> 0]

\* json.dump and the close of line 56: the text is written from offset 0 of
\* the file as it is now.  Over a longer text that another writer has put
\* there since this writer's open, the tail of that text stays: not JSON.
DumpedFile(file, doc) ==
    IF JsonLen(doc) >= file.len
    THEN CompleteFile(doc)
    ELSE [state |-> "invalid", doc |-> doc, len |-> file.len]

\* load_metadata (lines 47-51): {} without the file, JSONDecodeError for a
\* file that does not hold one JSON document.
load_metadata ==
    IF metaFile.state = "absent" THEN [err |-> "none", doc |-> <<>>]
    ELSE IF metaFile.state = "complete" THEN [err |-> "none", doc |-> metaFile.doc]
    ELSE [err |-> "JSONDecodeError", doc |-> <<>>]

\* file.save(filepath), the open: the file is created, or cut to nothing.
OpenedBlob(files, path, ino) ==
    IF path \in DOMAIN files
    THEN [files EXCEPT ![path].data = <<>>]
    ELSE [p \in DOMAIN files \cup {path} |->
             IF p = path THEN [ino |-> ino, data |-> <<>>] ELSE files[p]]

\* file.save(filepath), the write: the body goes to offset 0 of the file the
\* handler opened, if the directory still holds that file.
WrittenBlob(files, path, ino, body) ==
    IF path \in DOMAIN files /\ files[path].ino = ino
    THEN [files EXCEPT ![path].data =
             body \o SubSeq(@, Len(body) + 1, Len(@))]
    ELSE files

\* os.remove(video_path)
RemovedBlob(files, path) == [p \in DOMAIN files \ {path} |-> files[p]]

(***************************************************************************)
(* Requests and responses.                                                 *)
(***************************************************************************)
NoReq ==
    [kind |-> "none", user |-> NoUser, video_id |-> <<>>, title |-> <<>>,
     file_filename |-> None, body |-> <<>>, ino |-> 0, range_header |-> None,
     metadata |-> <<>>, size |-> 0]

NoResp ==
    [status |-> 0, body |-> <<>>, range |-> <<>>, length |-> -1, err |-> "none",
     videos |-> <<>>]

Status(code) == [NoResp EXCEPT !.status = code]

\* An exception the handler does not catch: Flask answers 500.
Unhandled(exception) == [NoResp EXCEPT !.status = 500, !.err = exception]

\* FullResponse with the headers only: no byte of the file in the body.
HeadersOnlyResponse(data) ==
    [NoResp EXCEPT !.status = 200, !.length = Len(data)]

\* send_file(video_path): the whole file, 200.
FullResponse(data) ==
    [NoResp EXCEPT !.status = 200, !.body = data, !.length = Len(data)]

\* Lines 1071-1080: 206 with the Content-Range and Content-Length headers.
PartialResponse(data, byte_start, byte_end, size, length) ==
    [NoResp EXCEPT !.status = 206, !.body = data,
                   !.range = <<byte_start, byte_end, size>>, !.length = length]

\* The handler of worker w, with locals `locals`, returns `response`: the
\* request (its session, its URL, the name of its file, its Range header)
\* stays on record, the handler's other locals are gone.
Return(w, locals, response) ==
    /\ pc' = [pc EXCEPT ![w] = "done"]
    /\ resp' = [resp EXCEPT ![w] = response]
    /\ req' = [req EXCEPT ![w] =
                 [NoReq EXCEPT !.kind = locals.kind, !.user = locals.user,
                               !.video_id = locals.video_id,
                               !.title = locals.title,
                               !.file_filename = locals.file_filename,
                               !.range_header = locals.range_header]]

\* The handler of worker w goes on at `label` with its locals `locals`.
Goto(w, label, locals) ==
    /\ pc' = [pc EXCEPT ![w] = label]
    /\ req' = [req EXCEPT ![w] = locals]
    /\ UNCHANGED resp

(***************************************************************************)
(* stream_video (lines 1033-1082).                                         *)
(***************************************************************************)
\* StreamBegin without the session check.
StreamBeginNoSession(w, user, video_id, range_header) ==
    LET locals == [NoReq EXCEPT !.kind = "stream", !.user = user,
                                !.video_id = video_id,
                                !.range_header = range_header]
        loaded == load_metadata
    IN  /\ pc[w] = "idle"
        /\ IF loaded.err # "none" THEN Return(w, locals, Unhandled(loaded.err))
           ELSE IF video_id \notin DocIds(loaded.doc) THEN Return(w, locals, Status(404))
           ELSE Goto(w, "s_exists", [locals EXCEPT !.metadata = loaded.doc])
        /\ UNCHANGED <<metaFile, blobs, inodes, clock, crashes, doc0>>

\* StreamBegin with the check of the owner that delete_video has.
StreamBeginOwnerOnly(w, user, video_id, range_header) ==
    LET locals == [NoReq EXCEPT !.kind = "stream", !.user = user,
                                !.video_id = video_id,
                                !.range_header = range_header]
        loaded == load_metadata
    IN  /\ pc[w] = "idle"
        /\ IF user = NoUser THEN Return(w, locals, Status(401))
           ELSE IF loaded.err # "none" THEN Return(w, locals, Unhandled(loaded.err))
           ELSE IF video_id \notin DocIds(loaded.doc) THEN Return(w, locals, Status(404))
           ELSE IF Lookup(loaded.doc, video_id).user_id # user
           THEN Return(w, locals, Status(403))
           ELSE Goto(w, "s_exists", [locals EXCEPT !.metadata = loaded.doc])
        /\ UNCHANGED <<metaFile, blobs, inodes, clock, crashes, doc0>>

\* Lines 1035-1040: the session check, load_metadata, the lookup of the id.
StreamBegin(w, user, video_id, range_header) ==
    LET locals == [NoReq EXCEPT !.kind = "stream", !.user = user,
                                !.video_id = video_id,
                                !.range_header = range_header]
        loaded == load_metadata
    IN  /\ pc[w] = "idle"
        /\ IF user = NoUser THEN Return(w, locals, Status(401))
           ELSE IF loaded.err # "none" THEN Return(w, locals, Unhandled(loaded.err))
           ELSE IF video_id \notin DocIds(loaded.doc) THEN Return(w, locals, Status(404))
           ELSE Goto(w, "s_exists", [locals EXCEPT !.metadata = loaded.doc])
        /\ UNCHANGED <<metaFile, blobs, inodes, clock, crashes, doc0>>

\* StreamExists without os.path.exists.
StreamExistsUnchecked(w) ==
    /\ pc[w] = "s_exists"
    /\ IF req[w].range_header = None \/ req[w].range_header = <<>>
       THEN Goto(w, "s_send", req[w])
       ELSE Goto(w, "s_stat", req[w])
    /\ UNCHANGED <<metaFile, blobs, inodes, clock, crashes, doc0>>

\* StreamExists that takes the record of a missing blob out of the metadata
\* file before it answers 404.
StreamExistsPruning(w) ==
    LET video_path == Lookup(req[w].metadata, req[w].video_id).filename
    IN  /\ pc[w] = "s_exists"
        /\ IF video_path \notin DOMAIN blobs
           THEN /\ metaFile' = CompleteFile(DictDel(req[w].metadata, req[w].video_id))
                /\ Return(w, req[w], Status(404))
           ELSE /\ UNCHANGED metaFile
                /\ IF req[w].range_header = None \/ req[w].range_header = <<>>
                   THEN Goto(w, "s_send", req[w])
                   ELSE Goto(w, "s_stat", req[w])
        /\ UNCHANGED <<blobs, inodes, clock, crashes, doc0>>

\* Lines 1043-1052: os.path.exists(video_path), then the Range header.
StreamExists(w) ==
    LET video_path == Lookup(req[w].metadata, req[w].video_id).filename
    IN  /\ pc[w] = "s_exists"
        /\ IF video_path \notin DOMAIN blobs THEN Return(w, req[w], Status(404))
           ELSE IF req[w].range_header = None \/ req[w].range_header = <<>>
                THEN Goto(w, "s_send", req[w])
                ELSE Goto(w, "s_stat", req[w])
        /\ UNCHANGED <<metaFile, blobs, inodes, clock, crashes, doc0>>

\* Line 1052: send_file(video_path) opens the file and sends all of it.
StreamSend(w) ==
    LET video_path == Lookup(req[w].metadata, req[w].video_id).filename
    IN  /\ pc[w] = "s_send"
        /\ IF video_path \notin DOMAIN blobs
           THEN Return(w, req[w], Unhandled("FileNotFoundError"))
           ELSE Return(w, req[w], FullResponse(blobs[video_path].data))
        /\ UNCHANGED <<metaFile, blobs, inodes, clock, crashes, doc0>>

\* Line 1054: size = os.path.getsize(video_path).
StreamStat(w) ==
    LET video_path == Lookup(req[w].metadata, req[w].video_id).filename
    IN  /\ pc[w] = "s_stat"
        /\ IF video_path \notin DOMAIN blobs
           THEN Return(w, req[w], Unhandled("FileNotFoundError"))
           ELSE Goto(w, "s_read", [req[w] EXCEPT !.size = Len(blobs[video_path].data)])
        /\ UNCHANGED <<metaFile, blobs, inodes, clock, crashes, doc0>>

\* Lines 1055-1082 for a file that holds `content` (a file that is gone:
\* open raises FileNotFoundError), stat'ed at `size` bytes.
RangeResponse(range_header, size, exists, content) ==
    LET parsed == ParseRange(range_header, size)
        length == parsed.byte_end - parsed.byte_start + 1
        read == ReadAt(content, parsed.byte_start, length)
    IN  IF parsed.err # "none" THEN Unhandled(parsed.err)
        ELSE IF ~exists THEN Unhandled("FileNotFoundError")
        ELSE IF read.err # "none" THEN Unhandled(read.err)
        ELSE PartialResponse(read.data, parsed.byte_start, parsed.byte_end,
                             size, length)

\* Lines 1055-1082: the header is parsed, the file opened and read, the 206
\* response built.
StreamRead(w) ==
    LET video_path == Lookup(req[w].metadata, req[w].video_id).filename
        exists == video_path \in DOMAIN blobs
        content == IF exists THEN blobs[video_path].data ELSE <<>>
    IN  /\ pc[w] = "s_read"
        /\ Return(w, req[w],
                  RangeResponse(req[w].range_header, req[w].size, exists, content))
        /\ UNCHANGED <<metaFile, blobs, inodes, clock, crashes, doc0>>

(***************************************************************************)
(* save_metadata (lines 53-56), as upload_video and delete_video call it.  *)
(***************************************************************************)
\* Line 55: open(METADATA_FILE, 'w').
SaveMetadataOpen(w) ==
    /\ pc[w] = "save_open"
    /\ metaFile' = TruncatedFile
    /\ Goto(w, "save_dump", req[w])
    /\ UNCHANGED <<blobs, inodes, clock, crashes, doc0>>

\* Line 56: json.dump and the close of the file; the handler then returns 200
\* (lines 1005 and 1106).
SaveMetadataDump(w) ==
    /\ pc[w] = "save_dump"
    /\ metaFile' = DumpedFile(metaFile, req[w].metadata)
    /\ Return(w, req[w], Status(200))
    /\ UNCHANGED <<blobs, inodes, clock, crashes, doc0>>

(***************************************************************************)
(* upload_video (lines 969-1005).                                          *)
(***************************************************************************)
\* UploadBegin without the check of the extension.
UploadBeginAnyType(w, user, hasFile, rawName, body) ==
    LET filename == secure_filename(rawName)
        unique_filename == <<user, clock, filename>>
        locals == [NoReq EXCEPT !.kind = "upload", !.user = user,
                                !.file_filename =
                                    IF hasFile THEN rawName ELSE None]
    IN  /\ pc[w] = "idle"
        /\ IF user = NoUser
           THEN Return(w, locals, Status(401)) /\ UNCHANGED <<blobs, inodes>>
           ELSE IF ~hasFile \/ rawName = <<>>
           THEN Return(w, locals, Status(400)) /\ UNCHANGED <<blobs, inodes>>
           ELSE /\ blobs' = OpenedBlob(blobs, unique_filename, inodes + 1)
                /\ inodes' = IF unique_filename \in DOMAIN blobs
                             THEN inodes ELSE inodes + 1
                /\ Goto(w, "u_write",
                        [locals EXCEPT !.video_id = unique_filename,
                                       !.title = filename, !.body = body,
                                       !.ino = blobs'[unique_filename].ino])
        /\ UNCHANGED <<metaFile, clock, crashes, doc0>>

\* Lines 971-989, to the open of file.save: the session check, the
\* validation of the file name, the naming of the blob.
UploadBegin(w, user, hasFile, rawName, body) ==
    LET filename == secure_filename(rawName)
        unique_filename == <<user, clock, filename>>
        locals == [NoReq EXCEPT !.kind = "upload", !.user = user,
                                !.file_filename =
                                    IF hasFile THEN rawName ELSE None]
    IN  /\ pc[w] = "idle"
        /\ IF user = NoUser
           THEN Return(w, locals, Status(401)) /\ UNCHANGED <<blobs, inodes>>
           ELSE IF ~hasFile \/ rawName = <<>> \/ ~allowed_file(rawName)
           THEN Return(w, locals, Status(400)) /\ UNCHANGED <<blobs, inodes>>
           ELSE /\ blobs' = OpenedBlob(blobs, unique_filename, inodes + 1)
                /\ inodes' = IF unique_filename \in DOMAIN blobs
                             THEN inodes ELSE inodes + 1
                /\ Goto(w, "u_write",
                        [locals EXCEPT !.video_id = unique_filename,
                                       !.title = filename, !.body = body,
                                       !.ino = blobs'[unique_filename].ino])
        /\ UNCHANGED <<metaFile, clock, crashes, doc0>>

\* Line 989, file.save: the body is written and the file closed.
UploadWrite(w) ==
    /\ pc[w] = "u_write"
    /\ blobs' = WrittenBlob(blobs, req[w].video_id, req[w].ino, req[w].body)
    /\ Goto(w, "u_load", req[w])
    /\ UNCHANGED <<metaFile, inodes, clock, crashes, doc0>>

\* Line 992: metadata = load_metadata().
UploadLoad(w) ==
    LET loaded == load_metadata
    IN  /\ pc[w] = "u_load"
        /\ IF loaded.err # "none" THEN Return(w, req[w], Unhandled(loaded.err))
           ELSE Goto(w, "u_record", [req[w] EXCEPT !.metadata = loaded.doc])
        /\ UNCHANGED <<metaFile, blobs, inodes, clock, crashes, doc0>>

\* Lines 993-1002: the record, with the time of now, the size of the blob as
\* it is now, and the extension of the sanitized name.
UploadRecord(w) ==
    LET filepath == req[w].video_id
    IN  /\ pc[w] = "u_record"
        /\ IF filepath \notin DOMAIN blobs
           THEN Return(w, req[w], Unhandled("FileNotFoundError"))
           ELSE IF Len(RSplit1(req[w].title, ".")) < 2
           THEN Return(w, req[w], Unhandled("IndexError"))
           ELSE Goto(w, "save_open",
                     [req[w] EXCEPT !.metadata =
                        DictPut(@, VideoRecord(req[w].video_id, req[w].title, clock,
                                               Len(blobs[filepath].data),
                                               req[w].user))])
        /\ UNCHANGED <<metaFile, blobs, inodes, clock, crashes, doc0>>

(***************************************************************************)
(* delete_video (lines 1084-1106).                                         *)
(***************************************************************************)
\* DeleteBegin without the check of the owner.
DeleteBeginAnyUser(w, user, video_id) ==
    LET locals == [NoReq EXCEPT !.kind = "delete", !.user = user,
                                !.video_id = video_id]
        loaded == load_metadata
    IN  /\ pc[w] = "idle"
        /\ IF user = NoUser THEN Return(w, locals, Status(401))
           ELSE IF loaded.err # "none" THEN Return(w, locals, Unhandled(loaded.err))
           ELSE IF video_id \notin DocIds(loaded.doc) THEN Return(w, locals, Status(404))
           ELSE Goto(w, "d_exists", [locals EXCEPT !.metadata = loaded.doc])
        /\ UNCHANGED <<metaFile, blobs, inodes, clock, crashes, doc0>>

\* Lines 1086-1096: the session check, load_metadata, the lookup of the id,
\* the check of the owner.
DeleteBegin(w, user, video_id) ==
    LET locals == [NoReq EXCEPT !.kind = "delete", !.user = user,
                                !.video_id = video_id]
        loaded == load_metadata
    IN  /\ pc[w] = "idle"
        /\ IF user = NoUser THEN Return(w, locals, Status(401))
           ELSE IF loaded.err # "none" THEN Return(w, locals, Unhandled(loaded.err))
           ELSE IF video_id \notin DocIds(loaded.doc) THEN Return(w, locals, Status(404))
           ELSE IF Lookup(loaded.doc, video_id).user_id # user
           THEN Return(w, locals, Status(403))
           ELSE Goto(w, "d_exists", [locals EXCEPT !.metadata = loaded.doc])
        /\ UNCHANGED <<metaFile, blobs, inodes, clock, crashes, doc0>>

\* Lines 1098-1100: os.path.exists(video_path); without the blob the handler
\* goes on to line 1103, del metadata[video_id].
DeleteExists(w) ==
    LET video_path == Lookup(req[w].metadata, req[w].video_id).filename
    IN  /\ pc[w] = "d_exists"
        /\ IF video_path \in DOMAIN blobs
           THEN Goto(w, "d_remove", req[w])
           ELSE Goto(w, "save_open",
                     [req[w] EXCEPT !.metadata = DictDel(@, req[w].video_id)])
        /\ UNCHANGED <<metaFile, blobs, inodes, clock, crashes, doc0>>

\* Lines 1101-1103: os.remove(video_path), then del metadata[video_id].
DeleteRemove(w) ==
    LET video_path == Lookup(req[w].metadata, req[w].video_id).filename
    IN  /\ pc[w] = "d_remove"
        /\ IF video_path \notin DOMAIN blobs
           THEN Return(w, req[w], Unhandled("FileNotFoundError"))
                /\ UNCHANGED blobs
           ELSE /\ blobs' = RemovedBlob(blobs, video_path)
                /\ Goto(w, "save_open",
                        [req[w] EXCEPT !.metadata = DictDel(@, req[w].video_id)])
        /\ UNCHANGED <<metaFile, inodes, clock, crashes, doc0>>

(***************************************************************************)
(* get_all_videos (lines 1007-1031).                                       *)
(***************************************************************************)
\* load_users (lines 36-40): users.json holds the registered users, u1 and
\* u2, with their names.
load_users ==
    [u \in Users |-> [id |-> u, name |-> IF u = "u1" THEN "Ann" ELSE "Bob"]]

\* VideoData with is_owner true for every owner that users.json knows.
VideoDataKnownOwner(video, users, user) ==
    [id |-> video.id, title |-> video.title, filename |-> video.filename,
     uploaded |-> video.uploaded, size |-> video.size, format |-> video.format,
     user_id |-> video.user_id,
     owner_name |-> IF video.user_id \in DOMAIN users
                    THEN users[video.user_id].name ELSE "Unknown User",
     is_owner |-> (video.user_id \in DOMAIN users)]

\* Lines 1018-1024: the record, with the name of its owner and whether the
\* owner is the user of the session.
VideoData(video, users, user) ==
    [id |-> video.id, title |-> video.title, filename |-> video.filename,
     uploaded |-> video.uploaded, size |-> video.size, format |-> video.format,
     user_id |-> video.user_id,
     owner_name |-> IF video.user_id \in DOMAIN users
                    THEN users[video.user_id].name ELSE "Unknown User",
     is_owner |-> (video.user_id = user)]

\* SortNewestFirst with each element put before the elements that are as new.
RECURSIVE SortNewestFirstTiesReversed(_, _)
SortNewestFirstTiesReversed(sorted, rest) ==
    IF rest = <<>> THEN sorted
    ELSE LET v == Head(rest)
             n == Cardinality({i \in 1..Len(sorted) :
                                  sorted[i].uploaded > v.uploaded})
         IN  SortNewestFirstTiesReversed(SubSeq(sorted, 1, n) \o <<v>>
                                            \o SubSeq(sorted, n + 1, Len(sorted)),
                                        Tail(rest))

\* Line 1029: list.sort(key=uploaded, reverse=True) is stable: each element
\* goes behind the elements that are as new or newer.
RECURSIVE SortNewestFirst(_, _)
SortNewestFirst(sorted, rest) ==
    IF rest = <<>> THEN sorted
    ELSE LET v == Head(rest)
             n == Cardinality({i \in 1..Len(sorted) :
                                  sorted[i].uploaded >= v.uploaded})
         IN  SortNewestFirst(SubSeq(sorted, 1, n) \o <<v>>
                                \o SubSeq(sorted, n + 1, Len(sorted)),
                             Tail(rest))

\* The whole handler: an empty list without a session, else the records of
\* the document that load_metadata gives, annotated and sorted.
GetAllVideos(w, user) ==
    LET locals == [NoReq EXCEPT !.kind = "list", !.user = user]
        loaded == load_metadata
        videos == [i \in 1..Len(loaded.doc) |->
                      VideoData(loaded.doc[i], load_users, user)]
    IN  /\ pc[w] = "idle"
        /\ IF user = NoUser THEN Return(w, locals, Status(200))
           ELSE IF loaded.err # "none" THEN Return(w, locals, Unhandled(loaded.err))
           ELSE Return(w, locals,
                       [NoResp EXCEPT !.status = 200,
                                      !.videos = SortNewestFirst(<<>>, videos)])
        /\ UNCHANGED <<metaFile, blobs, inodes, clock, crashes, doc0>>

(***************************************************************************)
(* The environment.                                                        *)
(***************************************************************************)
InFlight(w) == pc[w] \notin {"idle", "done"}

\* The process dies with requests in flight: their handlers stop where they
\* are and answer nothing; the files stay as they are.  The restarted
\* process serves the requests that come later.
Crash ==
    /\ crashes < MaxCrashes
    /\ \E w \in Workers : InFlight(w)
    /\ crashes' = crashes + 1
    /\ pc' = [w \in Threads |-> IF InFlight(w) THEN "done" ELSE pc[w]]
    /\ req' = [w \in Threads |->
                 IF InFlight(w)
                 THEN [NoReq EXCEPT !.kind = req[w].kind, !.user = req[w].user,
                                    !.video_id = req[w].video_id,
                                    !.title = req[w].title,
                                    !.file_filename = req[w].file_filename,
                                    !.range_header = req[w].range_header]
                 ELSE req[w]]
    /\ resp' = [w \in Threads |->
                  IF InFlight(w) THEN [NoResp EXCEPT !.err = "crash"] ELSE resp[w]]
    /\ UNCHANGED <<metaFile, blobs, inodes, clock, doc0>>

(***************************************************************************)
(* The inputs.                                                             *)
(***************************************************************************)
Mp4Name == <<"a", ".", "m", "p", "4">>

ExeName == <<"a", ".", "e", "x", "e">>

\* A video uploaded by u1 at second 0.
Video0 == <<"u1", 0, Mp4Name>>

\* An id no upload has produced.
GhostId == <<"u2", 0, <<"x", ".", "m", "p", "4">>>>

\* Ids a client asks for: those of the store, and one that never existed.
KnownIds == DOMAIN blobs \cup DocIds(metaFile.doc) \cup {GhostId}

\* The store at rest with the videos `ids` (none, or Video0), each blob
\* holding `data`.
StoreWith(ids, data) ==
    /\ metaFile = IF ids = {} THEN [state |-> "absent", doc |-> <<>>, len |-> 0]
                  ELSE CompleteFile(<<VideoRecord(Video0, Mp4Name, 0, Len(data), "u1")>>)
    /\ blobs = [p \in ids |-> [ino |-> 1, data |-> data]]
    /\ inodes = Cardinality(ids)
    /\ doc0 = ids

Idle ==
    /\ pc = [w \in Threads |-> "idle"]
    /\ req = [w \in Threads |-> NoReq]
    /\ resp = [w \in Threads |-> NoResp]
    /\ clock = 0
    /\ crashes = 0

\* A fresh store, or one that holds Video0 with the body "x".
Init ==
    /\ \E ids \in {{}, {Video0}} : StoreWith(ids, <<"x">>)
    /\ Idle

\* A step of an upload or a delete that has begun.
WriterStep(w) ==
    \/ UploadWrite(w) \/ UploadLoad(w) \/ UploadRecord(w)
    \/ SaveMetadataOpen(w) \/ SaveMetadataDump(w)
    \/ DeleteExists(w) \/ DeleteRemove(w)

\* A step of a stream that has begun.
ReaderStep(w) ==
    StreamExists(w) \/ StreamSend(w) \/ StreamStat(w) \/ StreamRead(w)

\* A step of a handler that has begun.
Step(w) == WriterStep(w) \/ ReaderStep(w)

(***************************************************************************)
(* The server under concurrent requests, all within one second of the      *)
(* clock: every worker takes one request, and the handlers' steps          *)
(* interleave.                                                             *)
(***************************************************************************)
\* Range headers of the concurrent requests: none, and bytes=0-
ConcurrentHeaders == {None, <<"b", "y", "t", "e", "s", "=", "0", "-">>}

\* A request arrives at worker w.
Begin(w) ==
    \E user \in Users \cup {NoUser} :
       \/ \E rawName \in {ExeName, Mp4Name} :
             UploadBegin(w, user, TRUE, rawName, <<"y">>)
       \/ \E video_id \in KnownIds, h \in ConcurrentHeaders :
             StreamBegin(w, user, video_id, h)
       \/ \E video_id \in KnownIds : DeleteBegin(w, user, video_id)

Next == \E w \in Workers : Begin(w) \/ Step(w)

Spec == Init /\ [][Next]_vars

(***************************************************************************)
(* The same, with crashes of the process.                                  *)
(***************************************************************************)
NextCrash == Next \/ Crash

SpecCrash == Init /\ [][NextCrash]_vars

(***************************************************************************)
(* One stream request on a store that holds Video0, for every body of up   *)
(* to MaxLen bytes and every Range header of RangeHeaders.                 *)
(***************************************************************************)
BytesEq == <<"b", "y", "t", "e", "s", "=">>

Contents == UNION {[1..n -> Bytes] : n \in 0..MaxLen}

\* bytes=<start>-<end>, bytes=<start>- and bytes=-<n>
ClosedHeader(start, end) == BytesEq \o PyStr(start) \o <<"-">> \o PyStr(end)

OpenHeader(start) == BytesEq \o PyStr(start) \o <<"-">>

SuffixHeader(n) == BytesEq \o <<"-">> \o PyStr(n)

\* Headers that are not of these forms: no "=", no "-", another unit, no
\* digits, two ranges, a sign, blanks around a number, an empty header.
OtherHeaders ==
    { <<"b", "y", "t", "e", "s">>,
      BytesEq \o <<"1">>,
      <<"x", "=", "0", "-", "1">>,
      BytesEq \o <<"a", "-", "b">>,
      BytesEq \o <<"0", "-", "0", ",", "2", "-", "2">>,
      BytesEq \o <<"+", "1", "-", " ", "2", " ">>,
      BytesEq \o <<"-">>,
      <<>> }

RangeHeaders ==
    {None} \cup OtherHeaders
    \cup {ClosedHeader(s, e) : s \in 0..MaxNum, e \in 0..MaxNum}
    \cup {OpenHeader(s) : s \in 0..MaxNum}
    \cup {SuffixHeader(n) : n \in 0..MaxNum}

InitRange ==
    /\ \E data \in Contents : StoreWith({Video0}, data)
    /\ Idle

NextRange ==
    \/ \E user \in Users \cup {NoUser}, h \in RangeHeaders :
          StreamBegin(1, user, Video0, h)
    \/ StreamExists(1) \/ StreamSend(1) \/ StreamStat(1) \/ StreamRead(1)

SpecRange == InitRange /\ [][NextRange]_vars

(***************************************************************************)
(* Two stream requests, of any two users, on a store that nothing writes:  *)
(* it holds the record of Video0, and its blob, of up to MaxLen bytes, or  *)
(* no blob (the file was removed from the upload folder from outside).     *)
(***************************************************************************)
\* The record of Video0 without its blob.
MissingBlobStore ==
    /\ metaFile = CompleteFile(<<VideoRecord(Video0, Mp4Name, 0, 1, "u1")>>)
    /\ blobs = [p \in {} |-> [ino |-> 1, data |-> <<>>]]
    /\ inodes = 1
    /\ doc0 = {Video0}

InitStreams ==
    /\ \/ \E data \in Contents : StoreWith({Video0}, data)
       \/ MissingBlobStore
    /\ Idle

\* Range headers of the two requests: none, bytes=0-, bytes=1-2, and one
\* without "=".
PairHeaders ==
    {None, OpenHeader(0), ClosedHeader(1, 2), <<"b", "y", "t", "e", "s">>}

Requesters == {1, 2}

NextStreams ==
    \E w \in Requesters :
       \/ \E user \in Users \cup {NoUser}, video_id \in {Video0, GhostId},
             h \in PairHeaders :
             StreamBegin(w, user, video_id, h)
       \/ ReaderStep(w)

SpecStreams == InitStreams /\ [][NextStreams]_vars

(***************************************************************************)
(* Two /videos/all requests on a store that nothing writes: its document   *)
(* holds up to MaxRecords records, in any order of insertion, uploaded at  *)
(* seconds 0..MaxTime by u1, by u2 and by a user that users.json does not  *)
(* hold.                                                                   *)
(***************************************************************************)
\* The user_id of records whose owner is not in users.json (the file has
\* been replaced since).
FormerUser == "u3"

CatalogRecords ==
    { VideoRecord(<<u, t, Mp4Name>>, Mp4Name, t, 1, u) :
         u \in Users \cup {FormerUser}, t \in 0..MaxTime }

\* Documents: sequences of records with different ids.
CatalogDocs ==
    UNION { { doc \in [1..n -> CatalogRecords] :
                \A i, j \in 1..n : i # j => doc[i].id # doc[j].id } :
            n \in 0..MaxRecords }

InitCatalog ==
    /\ \E doc \in CatalogDocs :
          /\ metaFile = CompleteFile(doc)
          /\ blobs = [p \in DocIds(doc) |-> [ino |-> 1, data |-> <<"x">>]]
          /\ inodes = Len(doc)
          /\ doc0 = DocIds(doc)
    /\ Idle

NextCatalog ==
    \E w \in Requesters, user \in Users \cup {NoUser} : GetAllVideos(w, user)

SpecCatalog == InitCatalog /\ [][NextCatalog]_vars

(***************************************************************************)
(* One upload request, with nothing else running, on a fresh store or one  *)
(* that holds Video0: every file name of UploadNames, bodies of one and of *)
(* two bytes, with and without the file part.                              *)
(***************************************************************************)
\* File names: none, without extension, .exe in both cases, .mp4 in both
\* cases, and an extension with nothing before the dot.
UploadNames ==
    { <<>>,
      <<"a">>,
      ExeName,
      <<"a", ".", "E", "X", "E">>,
      Mp4Name,
      <<"a", ".", "M", "P", "4">>,
      <<".", "m", "p", "4">> }

UploadBodies == {<<"y">>, <<"y", "y">>}

NextUpload ==
    \/ \E user \in Users \cup {NoUser}, hasFile \in BOOLEAN,
          rawName \in UploadNames, body \in UploadBodies :
          UploadBegin(1, user, hasFile, rawName, body)
    \/ UploadWrite(1) \/ UploadLoad(1) \/ UploadRecord(1)
    \/ SaveMetadataOpen(1) \/ SaveMetadataDump(1)

SpecUpload == Init /\ [][NextUpload]_vars

(***************************************************************************)
(* Concurrent uploads and deletes on a store that holds Video0, and, when  *)
(* they have been answered, one more request: the catalog, or a stream of  *)
(* Video0.                                                                 *)
(***************************************************************************)
InitLater ==
    /\ StoreWith({Video0}, <<"x">>)
    /\ Idle

BeginLater(w) ==
    \E user \in Users :
       \/ UploadBegin(w, user, TRUE, Mp4Name, <<"y">>)
       \/ DeleteBegin(w, user, Video0)

LaterRequest ==
    /\ \A w \in Workers : pc[w] = "done"
    /\ \/ \E user \in Users \cup {NoUser} : GetAllVideos(Observer, user)
       \/ \E user \in Users, h \in ConcurrentHeaders :
             StreamBegin(Observer, user, Video0, h)

NextLater ==
    \/ \E w \in Workers : BeginLater(w) \/ WriterStep(w)
    \/ LaterRequest
    \/ ReaderStep(Observer)

SpecLater == InitLater /\ [][NextLater]_vars

(***************************************************************************)
(* Properties of the metadata store under concurrent requests.             *)
(***************************************************************************)
AllDone == \A w \in Workers : pc[w] = "done"

FinalIds == DocIds(metaFile.doc)

\* C1: when concurrent uploads with pairwise distinct ids have all returned
\* 200, the metadata document holds the id of every one of them (no insert
\* is lost).
C1_NoLostInsert ==
    ( /\ AllDone
      /\ \A w \in Workers : req[w].kind = "upload" /\ resp[w].status = 200
      /\ \A v, w \in Workers : v # w => req[v].video_id # req[w].video_id )
    => /\ metaFile.state = "complete"
       /\ \A w \in Workers : req[w].video_id \in FinalIds

\* What the request of worker w does to a document with the ids `ids` when
\* no other request runs: an upload that passed validation adds its id, a
\* delete by the owner of an id of the document removes it.
SerialEffect(ids, w) ==
    IF /\ req[w].kind = "upload"
       /\ req[w].video_id # <<>>
       /\ Len(RSplit1(req[w].title, ".")) = 2
    THEN ids \cup {req[w].video_id}
    ELSE IF /\ req[w].kind = "delete"
            /\ req[w].video_id \in ids
            /\ req[w].video_id[1] = req[w].user
    THEN ids \ {req[w].video_id}
    ELSE ids

RECURSIVE SerialRun(_, _)
SerialRun(ids, order) ==
    IF order = <<>> THEN ids
    ELSE SerialRun(SerialEffect(ids, Head(order)), Tail(order))

SerialOrders ==
    {order \in [1..NumWorkers -> Workers] :
        \A i, j \in 1..NumWorkers : i # j => order[i] # order[j]}

\* C2: when concurrent uploads and deletes have all returned without an
\* unhandled error, the metadata document is a complete document and holds
\* the ids that one of the serial orders of the same requests leaves.
C2_Linearized ==
    ( /\ AllDone
      /\ \A w \in Workers : req[w].kind \in {"upload", "delete"}
                            /\ resp[w].status # 500 )
    => /\ metaFile.state # "invalid"
       /\ \E order \in SerialOrders : FinalIds = SerialRun(doc0, order)

\* C3: without a crash, the load_metadata of a stream or delete request
\* never reads a document that is not complete (which json.load answers
\* with JSONDecodeError).
C3_ConsistentSnapshot ==
    \A w \in Workers :
       req[w].kind \in {"stream", "delete"} => resp[w].err # "JSONDecodeError"

\* C4: a crash of the process, at any point of save_metadata, leaves the
\* metadata file holding a complete document.
C4_CrashAtomic == [][crashes' > crashes => metaFile'.state # "invalid"]_vars

(***************************************************************************)
(* Properties of the Range header, under SpecRange: worker 1 streams       *)
(* Video0, whose blob holds Data.                                          *)
(***************************************************************************)
Data == IF Video0 \in DOMAIN blobs THEN blobs[Video0].data ELSE <<>>

\* Worker 1 has answered the stream request of a logged-in user with the
\* Range header h.
Served(h) ==
    /\ pc[1] = "done"
    /\ req[1].kind = "stream"
    /\ req[1].user # NoUser
    /\ req[1].range_header = h

Max(a, b) == IF a >= b THEN a ELSE b

\* C5: a request with Range: bytes=<s>-<e>, 0 <= s <= e < L, on a blob of L
\* bytes is answered 206 with Content-Range s-e/L and exactly the bytes of
\* the blob at offsets s..e.
C5_ClosedRange ==
    \A s, e \in 0..MaxNum :
       (Served(ClosedHeader(s, e)) /\ s <= e /\ e < Len(Data))
       => /\ resp[1].status = 206
          /\ resp[1].range = <<s, e, Len(Data)>>
          /\ resp[1].body = SubSeq(Data, s + 1, e + 1)

\* bytes=1-2 on a blob of three bytes, the second and third different, is
\* answered with those two bytes.
C5_Witness ==
    /\ Served(ClosedHeader(1, 2))
    /\ Len(Data) = 3 /\ Data[2] # Data[3]
    /\ resp[1].status = 206
    /\ resp[1].body = <<Data[2], Data[3]>>

\* C6: a request with Range: bytes=<s>-<e> with s > e or s >= L (which
\* includes every range on an empty blob) is answered 416.
C6_Unsatisfiable ==
    \A s, e \in 0..MaxNum :
       (Served(ClosedHeader(s, e)) /\ (s > e \/ s >= Len(Data)))
       => resp[1].status = 416

\* C7: every 206 response has a Content-Range start-end/L with
\* 0 <= start <= end <= L-1, a Content-Length of end-start+1, and a body of
\* as many bytes as its Content-Length says.
C7_WellFormed206 ==
    \A w \in Workers :
       resp[w].status = 206
       => /\ 0 <= resp[w].range[1]
          /\ resp[w].range[1] <= resp[w].range[2]
          /\ resp[w].range[2] <= resp[w].range[3] - 1
          /\ resp[w].length = resp[w].range[2] - resp[w].range[1] + 1
          /\ Len(resp[w].body) = resp[w].length

\* C8: a request with Range: bytes=-<n> on a blob of L > 0 bytes is answered
\* 206 with the last n bytes of the blob: Content-Range max(0, L-n)-(L-1)/L.
C8_SuffixRange ==
    \A n \in 1..MaxNum :
       (Served(SuffixHeader(n)) /\ Len(Data) > 0)
       => /\ resp[1].status = 206
          /\ resp[1].range = <<Max(0, Len(Data) - n), Len(Data) - 1, Len(Data)>>
          /\ resp[1].body = SubSeq(Data, Max(0, Len(Data) - n) + 1, Len(Data))

\* C9: a request with Range: bytes=<s>-, 0 <= s < L, on a blob of L bytes is
\* answered 206 with Content-Range s-(L-1)/L and the bytes of the blob from
\* offset s to its end.
C9_OpenEnded ==
    \A s \in 0..MaxNum :
       (Served(OpenHeader(s)) /\ s < Len(Data))
       => /\ resp[1].status = 206
          /\ resp[1].range = <<s, Len(Data) - 1, Len(Data)>>
          /\ resp[1].body = SubSeq(Data, s + 1, Len(Data))

\* bytes=1- on a blob of three bytes is answered with its last two bytes.
C9_Witness ==
    /\ Served(OpenHeader(1))
    /\ Len(Data) = 3 /\ Data[2] # Data[3]
    /\ resp[1].status = 206
    /\ resp[1].range = <<1, 2, 3>>

\* Malformed headers: no "=", another unit, bounds that are no numbers, two
\* ranges.
MalformedHeaders ==
    { <<"b", "y", "t", "e", "s">>,
      <<"x", "=", "0", "-", "1">>,
      BytesEq \o <<"a", "-", "b">>,
      BytesEq \o <<"0", "-", "0", ",", "2", "-", "2">> }

\* C10: a request with a malformed Range header is answered 200 with the
\* whole blob.
C10_MalformedIgnored ==
    \A h \in MalformedHeaders :
       Served(h) => resp[1].status = 200 /\ resp[1].body = Data

\* C11: a stream request without a Range header, by a logged-in user, for a
\* video whose record and blob exist, is answered 200 with all L bytes of the
\* blob.
C11_NoRange ==
    (Served(None) /\ Video0 \in DocIds(metaFile.doc) /\ Video0 \in DOMAIN blobs)
    => /\ resp[1].status = 200
       /\ resp[1].body = Data
       /\ resp[1].length = Len(Data)

\* A request without a Range header on a blob of three bytes is answered 200
\* with the three bytes.
C11_Witness ==
    /\ Served(None)
    /\ Len(Data) = 3 /\ Data[1] # Data[2]
    /\ resp[1].status = 200
    /\ resp[1].body = Data

(***************************************************************************)
(* Properties of the handlers under concurrent requests (Spec).            *)
(***************************************************************************)
\* Thread w takes a request in this step.
Arrives(w) == pc[w] = "idle" /\ pc'[w] # "idle"

\* The metadata file holds a document with a record of video_id that
\* belongs to a user other than `user`.
OwnedByOther(video_id, user) ==
    /\ metaFile.state = "complete"
    /\ video_id \in DocIds(metaFile.doc)
    /\ Lookup(metaFile.doc, video_id).user_id # user

\* C12: a delete request of a logged-in user for a video that belongs to
\* another user is answered 403 at once, and leaves the metadata file and
\* the blobs as they were.
C12_ForbiddenDelete ==
    [][\A w \in Workers :
          ( /\ Arrives(w)
            /\ req'[w].kind = "delete"
            /\ req'[w].user # NoUser
            /\ OwnedByOther(req'[w].video_id, req'[w].user) )
          => /\ pc'[w] = "done"
             /\ resp'[w].status = 403
             /\ metaFile' = metaFile
             /\ blobs' = blobs]_vars

\* u2 has asked to delete Video0, of u1, and was answered 403; the record and
\* the blob of Video0 are there as at the start.
C12_Witness ==
    \E w \in Workers :
       /\ pc[w] = "done"
       /\ req[w].kind = "delete" /\ req[w].user = "u2" /\ req[w].video_id = Video0
       /\ resp[w].status = 403
       /\ metaFile = CompleteFile(<<VideoRecord(Video0, Mp4Name, 0, 1, "u1")>>)
       /\ Video0 \in DOMAIN blobs /\ blobs[Video0].data = <<"x">>

\* C15: two upload requests that have both been answered 200 were given
\* different ids, whoever sent them and whatever their file names, also
\* within one second of the clock.
C15_DistinctIds ==
    \A v, w \in Workers :
       ( /\ v # w
         /\ pc[v] = "done" /\ req[v].kind = "upload" /\ resp[v].status = 200
         /\ pc[w] = "done" /\ req[w].kind = "upload" /\ resp[w].status = 200 )
       => req[v].video_id # req[w].video_id

\* C19: the blob of a video whose record is in the metadata file has the
\* same content after every step, as long as the blob is there.
C19_BlobImmutable ==
    [][\A video_id \in DOMAIN blobs :
          ( /\ metaFile.state = "complete"
            /\ video_id \in DocIds(metaFile.doc)
            /\ video_id \in DOMAIN blobs' )
          => blobs'[video_id].data = blobs[video_id].data]_vars

\* C20: a stream, upload or delete request without a user in its session is
\* answered 401 at once, and leaves the metadata file and the blobs as they
\* were.
C20_Unauthorized ==
    [][\A w \in Workers :
          ( /\ Arrives(w)
            /\ req'[w].kind \in {"stream", "upload", "delete"}
            /\ req'[w].user = NoUser )
          => /\ pc'[w] = "done"
             /\ resp'[w] = Status(401)
             /\ metaFile' = metaFile
             /\ blobs' = blobs
             /\ inodes' = inodes]_vars

\* A stream of Video0 without a session has been answered 401, with the
\* record and the blob of Video0 in the store.
C20_Witness ==
    \E w \in Workers :
       /\ pc[w] = "done"
       /\ req[w].kind = "stream" /\ req[w].user = NoUser
       /\ req[w].video_id = Video0
       /\ resp[w].status = 401
       /\ metaFile.state = "complete" /\ Video0 \in DocIds(metaFile.doc)
       /\ Video0 \in DOMAIN blobs

\* The user whose upload was given the id (line 986): the owner of its
\* record.
OwnerOf(video_id) == video_id[1]

\* C23: of two delete requests of the owner for the same video of the store,
\* both answered, one is answered 200 and the other 404.
C23_DestroyedOnce ==
    \A v, w \in Workers :
       ( /\ v # w
         /\ pc[v] = "done" /\ req[v].kind = "delete"
         /\ pc[w] = "done" /\ req[w].kind = "delete"
         /\ req[v].video_id = req[w].video_id
         /\ req[v].video_id \in doc0
         /\ req[v].user = OwnerOf(req[v].video_id)
         /\ req[w].user = OwnerOf(req[w].video_id) )
       => \/ resp[v].status = 200 /\ resp[w].status = 404
          \/ resp[v].status = 404 /\ resp[w].status = 200

\* C26: no step of a stream request changes the metadata file or a blob.
C26_StreamNoEffect ==
    [][\A w \in Workers :
          (pc'[w] # pc[w] /\ req'[w].kind = "stream")
          => /\ metaFile' = metaFile
             /\ blobs' = blobs
             /\ inodes' = inodes]_vars

\* A stream of Video0 has been answered 206 and another 404, and the record
\* and the blob of Video0 are as at the start.
C26_Witness ==
    /\ \E w \in Workers :
          /\ pc[w] = "done" /\ req[w].kind = "stream"
          /\ req[w].video_id = Video0 /\ resp[w].status = 206
    /\ \E w \in Workers :
          /\ pc[w] = "done" /\ req[w].kind = "stream"
          /\ resp[w].status = 404
    /\ metaFile = CompleteFile(<<VideoRecord(Video0, Mp4Name, 0, 1, "u1")>>)
    /\ DOMAIN blobs = {Video0} /\ blobs[Video0].data = <<"x">>

\* The ids that have had a record: those of the start, and those of the
\* uploads answered 200.
Inserted ==
    doc0 \cup {req[w].video_id : w \in {v \in Workers :
                                          /\ pc[v] = "done"
                                          /\ req[v].kind = "upload"
                                          /\ resp[v].status = 200}}

\* A delete of video_id by its owner has been answered 200.
RemovedByOwner(video_id) ==
    \E w \in Workers :
       /\ pc[w] = "done" /\ req[w].kind = "delete"
       /\ req[w].video_id = video_id
       /\ req[w].user = OwnerOf(video_id)
       /\ resp[w].status = 200

\* C27: when all requests have been answered and the metadata file holds a
\* document, every id that has had a record is in the document, unless a
\* delete of it by its owner has been answered 200.
C27_OnlyOwnerRemoves ==
    (AllDone /\ metaFile.state # "invalid")
    => \A video_id \in Inserted :
          video_id \in FinalIds \/ RemovedByOwner(video_id)

\* C28: when the upload and delete requests have all been answered and the
\* metadata file holds a document, the ids of the document are the names of
\* the blobs in the upload folder.
C28_Agreement ==
    ( /\ AllDone
      /\ \A w \in Workers : req[w].kind \in {"upload", "delete"}
      /\ metaFile.state # "invalid" )
    => FinalIds = DOMAIN blobs

\* C29: a stream request of a logged-in user that runs along with a delete
\* of the same video, and has read the metadata document, is answered 200,
\* 206 or 404.
C29_StreamVersusDelete ==
    \A v, w \in Workers :
       ( /\ v # w
         /\ pc[w] = "done" /\ req[w].kind = "stream" /\ req[w].user # NoUser
         /\ req[v].kind = "delete" /\ req[v].video_id = req[w].video_id
         /\ resp[w].err # "JSONDecodeError" )
       => resp[w].status \in {200, 206, 404}

(***************************************************************************)
(* Properties of a request that comes after the others (SpecLater).        *)
(***************************************************************************)
\* A worker's delete of video_id has been answered 200.
Deleted(video_id) ==
    \E w \in Workers :
       /\ pc[w] = "done"
       /\ req[w].kind = "delete" /\ req[w].video_id = video_id
       /\ resp[w].status = 200

\* No worker has had an upload that was given the id video_id.
NotUploaded(video_id) ==
    \A w \in Workers : ~(req[w].kind = "upload" /\ req[w].video_id = video_id)

ListedIds(videos) == {videos[i].id : i \in 1..Len(videos)}

\* C13: after the owner's delete of a video has been answered 200, and with no
\* upload that was given its id, a later /videos/all of a logged-in user
\* is a list without the id, and a later /stream/<id> is answered 404.
C13_DeletedIsGone ==
    ( /\ Deleted(Video0)
      /\ NotUploaded(Video0)
      /\ pc[Observer] = "done"
      /\ req[Observer].user # NoUser )
    => /\ req[Observer].kind = "list"
          => /\ resp[Observer].status = 200
             /\ Video0 \notin ListedIds(resp[Observer].videos)
       /\ req[Observer].kind = "stream" => resp[Observer].status = 404

(***************************************************************************)
(* Properties of a delete that fails (SpecCrash).                          *)
(***************************************************************************)
\* The metadata file `file` holds a record of video_id.
HasRecord(file, video_id) ==
    file.state = "complete" /\ video_id \in DocIds(file.doc)

\* C14: when the process dies during a delete_video that runs alone, the
\* store is left with both the record and the blob of the video, or with
\* neither: no record without its blob, no blob without its record.
C14_DeleteAllOrNothing ==
    [][\A w \in Workers :
          ( /\ crashes' > crashes
            /\ InFlight(w)
            /\ req[w].kind = "delete"
            /\ \A v \in Workers \ {w} : pc[v] = "idle" )
          => ( HasRecord(metaFile', req[w].video_id)
               <=> req[w].video_id \in DOMAIN blobs' )]_vars

(***************************************************************************)
(* Properties of one upload (SpecUpload): worker 1 uploads, on a store     *)
(* that is fresh or holds Video0 with the record InitialRecord.            *)
(***************************************************************************)
InitialRecord == VideoRecord(Video0, Mp4Name, 0, 1, "u1")

\* Worker 1 has answered an upload request.
Uploaded == pc[1] = "done" /\ req[1].kind = "upload"

\* C16: an upload that is given an id the metadata document holds is not
\* answered 200, and leaves the record of that id as it was written first.
C16_InsertOnce ==
    (Uploaded /\ req[1].video_id \in doc0)
    => /\ resp[1].status # 200
       /\ metaFile = CompleteFile(<<InitialRecord>>)

\* C17: an upload that is not answered 200 leaves no blob in the upload
\* folder that was not there before.
C17_NoOrphan ==
    (Uploaded /\ resp[1].status # 200) => DOMAIN blobs \subseteq doc0

\* The extensions the specification allows.
AllowList ==
    { <<"m", "p", "4">>, <<"a", "v", "i">>, <<"m", "o", "v">>,
      <<"m", "k", "v">>, <<"w", "e", "b", "m">> }

\* A file name that is empty, has no extension, or has an extension that is,
\* in lower case, not of the allow-list.
Rejected(name) ==
    \/ name = <<>>
    \/ ~Contains(name, ".")
    \/ Lower(SubSeq(name, LastIndex(name, ".") + 1, Len(name))) \notin AllowList

\* C18: an upload of a logged-in user with such a file name is answered 400
\* at once: no blob is created or written, and the metadata file stays as
\* it was.
C18_ValidationFirst ==
    [][\A w \in Workers :
          ( /\ Arrives(w)
            /\ req'[w].kind = "upload"
            /\ req'[w].user # NoUser
            /\ req'[w].file_filename # None
            /\ Rejected(req'[w].file_filename) )
          => /\ pc'[w] = "done"
             /\ resp'[w] = Status(400)
             /\ blobs' = blobs
             /\ inodes' = inodes
             /\ metaFile' = metaFile]_vars

\* The upload of a.EXE by u1 has been answered 400, and the upload folder
\* holds the blobs it held at the start.
C18_Witness ==
    /\ Uploaded
    /\ req[1].user = "u1"
    /\ req[1].file_filename = <<"a", ".", "E", "X", "E">>
    /\ resp[1].status = 400
    /\ DOMAIN blobs = doc0
    /\ metaFile.state # "invalid"

(***************************************************************************)
(* Properties of stream requests on a store at rest (SpecStreams).         *)
(***************************************************************************)
\* Requester w has the answer to the stream request of a logged-in user.
Streamed(w) ==
    pc[w] = "done" /\ req[w].kind = "stream" /\ req[w].user # NoUser

\* C21: two stream requests of logged-in users for the same video id, with the
\* same Range header, on the same store, get the same response (status,
\* headers and body), whoever of them owns the video.
C21_SameForAll ==
    ( /\ Streamed(1) /\ Streamed(2)
      /\ req[1].video_id = req[2].video_id
      /\ req[1].range_header = req[2].range_header )
    => resp[1] = resp[2]

\* The owner u1 and the user u2 have both asked for bytes 1-2 of Video0, of
\* three bytes, and both got them.
C21_Witness ==
    /\ Streamed(1) /\ req[1].user = "u1" /\ req[1].video_id = Video0
    /\ Streamed(2) /\ req[2].user = "u2" /\ req[2].video_id = Video0
    /\ req[1].range_header = ClosedHeader(1, 2)
    /\ req[2].range_header = ClosedHeader(1, 2)
    /\ Len(Data) = 3 /\ Data[2] # Data[3]
    /\ resp[1].status = 206 /\ resp[1].body = <<Data[2], Data[3]>>
    /\ resp[2].status = 206 /\ resp[2].body = <<Data[2], Data[3]>>

\* C22: a stream request of a logged-in user is answered 404, with no
\* unhandled error, when the metadata document has no record of the id, and
\* when it has one but the blob is not in the upload folder.
C22_NotFound ==
    \A w \in Requesters :
       ( /\ Streamed(w)
         /\ \/ req[w].video_id \notin DocIds(metaFile.doc)
            \/ req[w].video_id \notin DOMAIN blobs )
       => resp[w] = Status(404)

\* The two cases: an id without a record, and the record of Video0 without
\* its blob, each answered 404.
C22_Witness ==
    /\ Streamed(1) /\ req[1].video_id = GhostId /\ resp[1].status = 404
    /\ Streamed(2) /\ req[2].video_id = Video0 /\ resp[2].status = 404
    /\ Video0 \in DocIds(metaFile.doc) /\ Video0 \notin DOMAIN blobs

(***************************************************************************)
(* Properties of the catalog (SpecCatalog).                                *)
(***************************************************************************)
\* Requester w has the answer to the /videos/all of a logged-in user.
Listed(w) == pc[w] = "done" /\ req[w].kind = "list" /\ req[w].user # NoUser

\* The place of the record of video_id in the metadata document.
PlaceOf(video_id) ==
    CHOOSE i \in 1..Len(metaFile.doc) : metaFile.doc[i].id = video_id

IdsOf(videos) == [i \in 1..Len(videos) |-> videos[i].id]

\* C24: /videos/all of a logged-in user returns every record of the document
\* once, newest first, records of the same second in the order of the
\* document; two calls on the same store return the same sequence of ids.
C24_CatalogOrder ==
    /\ \A w \in Requesters :
          Listed(w) =>
             LET videos == resp[w].videos
             IN  /\ resp[w].status = 200
                 /\ Len(videos) = Len(metaFile.doc)
                 /\ ListedIds(videos) = DocIds(metaFile.doc)
                 /\ \A i, j \in 1..Len(videos) :
                        i < j =>
                           /\ videos[i].uploaded >= videos[j].uploaded
                           /\ videos[i].uploaded = videos[j].uploaded
                              => PlaceOf(videos[i].id) < PlaceOf(videos[j].id)
    /\ (Listed(1) /\ Listed(2))
       => IdsOf(resp[1].videos) = IdsOf(resp[2].videos)

\* A document of three records, the second newer than the first and the
\* third of the same second as the first, is listed second, first, third.
C24_Witness ==
    /\ Listed(1)
    /\ Len(metaFile.doc) = 3
    /\ metaFile.doc[1].uploaded < metaFile.doc[2].uploaded
    /\ metaFile.doc[1].uploaded = metaFile.doc[3].uploaded
    /\ IdsOf(resp[1].videos)
          = <<metaFile.doc[2].id, metaFile.doc[1].id, metaFile.doc[3].id>>

\* C25: every entry of the list has is_owner true exactly for the records of
\* the viewer, and as owner_name the name that users.json has for the
\* record's user_id, or "Unknown User" when it has none; the request is
\* answered 200 also then.
C25_CatalogAnnotation ==
    \A w \in Requesters :
       Listed(w) =>
          /\ resp[w].status = 200
          /\ \A i \in 1..Len(resp[w].videos) :
                LET v == resp[w].videos[i]
                    record == Lookup(metaFile.doc, v.id)
                IN  /\ v.is_owner = (record.user_id = req[w].user)
                    /\ v.owner_name =
                          IF record.user_id \in DOMAIN load_users
                          THEN load_users[record.user_id].name
                          ELSE "Unknown User"

\* u2 is shown a list with a record of its own, under its name, and one of
\* the user that users.json does not hold, as "Unknown User".
C25_Witness ==
    /\ Listed(1) /\ req[1].user = "u2"
    /\ resp[1].status = 200
    /\ \E i \in 1..Len(resp[1].videos) :
          LET v == resp[1].videos[i]
          IN  v.user_id = "u2" /\ v.is_owner /\ v.owner_name = "Bob"
    /\ \E i \in 1..Len(resp[1].videos) :
          LET v == resp[1].videos[i]
          IN  v.user_id = FormerUser /\ ~v.is_owner
              /\ v.owner_name = "Unknown User"

=============================================================================
